---------------------------- MODULE Spec2Model ----------------------------
(***************************************************************************)
(* Scrambler tool (src/app.js): the scoring function computeScore, the run *)
(* store (saveRun, deleteRun, clearMyRuns), the practice summary          *)
(* (renderPracticeSummary, exportPracticeSummaryCSV) and signing up        *)
(* (createUser).                                                           *)
(*                                                                         *)
(* Numbers.  A JavaScript number is modelled by an integer count of a      *)
(* fixed decimal unit, chosen per field:                                   *)
(*   - distances (cm), times (s) and scores: hundredths;                   *)
(*   - targetDistanceM, carAngleDeg, dialTurns, winds and the filter       *)
(*     fields: thousandths.                                                *)
(* A quotient (an average) is kept exact as a fraction [n, d] of           *)
(* hundredths.  Arithmetic is exact: binary floating-point noise is not    *)
(* modelled, except in toFixed, where the side on which the double lies    *)
(* decides a decimal tie (see DoubleAbove).                                *)
(***************************************************************************)
EXTENDS Integers, Sequences, FiniteSets, TLC

VARIABLES
    scoreInp,           \* the object handed to computeScore
    scoreRes,           \* what computeScore returned for it (NoResult before the call)
    currentUser,        \* let currentUser (app.js:103)
    runs,               \* localStorage[LS.RUNS], in array order
    nextId,             \* the ids uid() has handed out so far
    filterTrackM,       \* the text of the #filterTrackM field
    filterToleranceM,   \* the text of the #filterToleranceM field
    practiceSummary,    \* window.__practiceSummary
    practiceMsg,        \* the text of #practiceMsg
    runsTable,          \* the rows of #runsTable: the id each row's Delete button holds
    chartData,          \* the scores the chart plots
    users,              \* localStorage[LS.USERS]: username -> [saltB64, hashB64]
    calls,              \* the btnSignup handlers started: where each stands, and its locals
    authMsg,            \* the text of #authMsg
    summaryFresh,       \* history: nothing renderPracticeSummary reads has changed since it last ran
    saved               \* history: for the id of each stored run, what saveRun read, scored and wrote

vars == <<scoreInp, scoreRes, currentUser, runs, nextId, filterTrackM,
          filterToleranceM, practiceSummary, practiceMsg, runsTable, chartData,
          users, calls, authMsg, summaryFresh, saved>>

scoreVars == <<scoreInp, scoreRes>>
authVars == <<users, calls, authMsg>>
appVars == <<currentUser, runs, nextId, filterTrackM, filterToleranceM,
             practiceSummary, practiceMsg, runsTable, chartData, authVars,
             summaryFresh, saved>>

---------------------------------------------------------------------------
(* JavaScript values.  Every value is a record [t, v], so that any two are *)
(* comparable: a number, a string holding a decimal number, the empty      *)
(* string, a string that is no number, undefined, NaN, Infinity, a boolean.*)

JNum(v)  == [t |-> "num",   v |-> v]
JStr(v)  == [t |-> "str",   v |-> v]
JEmpty   == [t |-> "empty", v |-> 0]
JJunk    == [t |-> "junk",  v |-> 0]
JUndef   == [t |-> "undef", v |-> 0]
JNaN     == [t |-> "nan",   v |-> 0]
JInf     == [t |-> "inf",   v |-> 0]
JBool(b) == [t |-> "bool",  v |-> IF b THEN 1 ELSE 0]

\* inp.f: undefined when the object has no such property.
Field(o, f) == IF f \in DOMAIN o THEN o[f] ELSE JUndef

\* ToBoolean, as `!!x`, `x ? a : b` and `x || y` apply it.
Truthy(x) ==
    CASE x.t = "bool"  -> x.v = 1
      [] x.t = "num"   -> x.v # 0
      [] x.t = "str"   -> TRUE
      [] x.t = "junk"  -> TRUE
      [] x.t = "inf"   -> TRUE
      [] OTHER         -> FALSE

\* Number(x): [fin, v], fin = Number.isFinite of the result. Number("") and
\* Number(null) are 0.
Number(x) ==
    CASE x.t = "num"   -> [fin |-> TRUE,  v |-> x.v]
      [] x.t = "str"   -> [fin |-> TRUE,  v |-> x.v]
      [] x.t = "empty" -> [fin |-> TRUE,  v |-> 0]
      [] x.t = "null"  -> [fin |-> TRUE,  v |-> 0]
      [] OTHER         -> [fin |-> FALSE, v |-> 0]

\* (No boolean reaches Number in this program.)

num(v) == IF Number(v).fin THEN Number(v).v ELSE 0

\* Exact fractions of hundredths.
Q(n, d) == [n |-> n, d |-> d]
QPlus(q, k) == [n |-> q.n + k * q.d, d |-> q.d]
QLess(a, b) == a.n * b.d < b.n * a.d

\* Math.round(x * 100) / 100, in hundredths: Math.round is floor(y + 1/2).
round2(q) == (2 * q.n + q.d) \div (2 * q.d)

Abs(x) == IF x < 0 THEN -x ELSE x

RECURSIVE SeqSum(_)
SeqSum(s) == IF s = <<>> THEN 0 ELSE Head(s) + SeqSum(Tail(s))

---------------------------------------------------------------------------
(* Time averaging and scoring.                                             *)

timeOk(v) == Number(v).fin /\ Number(v).v >= 0

avgOfTimes(t1, t2, t3) ==
    LET arr == SelectSeq(<<t1, t2, t3>>, timeOk)
        vals == [i \in 1..Len(arr) |-> Number(arr[i]).v]
    IN  IF Len(arr) = 0 THEN Q(0, 1) ELSE Q(SeqSum(vals), Len(arr))

base == 10000
failedDistCm == 250000

failed(inp) == Truthy(Field(inp, "failedRun"))

distCm_ignoreFailed(inp) == num(Field(inp, "vehicleDistanceCm"))
distCm(inp) == IF failed(inp) THEN failedDistCm ELSE num(Field(inp, "vehicleDistanceCm"))

timeAvg(inp) ==
    IF failed(inp) THEN Q(0, 1)
    ELSE avgOfTimes(Field(inp, "time1"), Field(inp, "time2"), Field(inp, "time3"))

bucket_added(inp) == IF Truthy(Field(inp, "bucketBonus")) THEN 10000 ELSE 0
bucket(inp) == IF Truthy(Field(inp, "bucketBonus")) THEN -10000 ELSE 0

cv(inp) == IF Truthy(Field(inp, "competitionViolationPoints")) THEN 15000 ELSE 0
conv(inp) == IF Truthy(Field(inp, "constructionViolationPoints")) THEN 30000 ELSE 0

computeScore(inp) ==
    LET distanceScore == 2 * distCm(inp)
        timeScore == timeAvg(inp)
        total == QPlus(timeScore, base + distanceScore + bucket(inp) + cv(inp) + conv(inp))
    IN  [ total |-> round2(total),
          timeAvg |-> round2(timeAvg(inp)),
          breakdown |-> [ distCm |-> round2(Q(distCm(inp), 1)),
                          distanceScore |-> round2(Q(distanceScore, 1)),
                          timeAvg |-> round2(timeAvg(inp)),
                          bucket |-> bucket(inp),
                          penalties |-> cv(inp) + conv(inp),
                          failed |-> failed(inp) ] ]

NoResult == [ total |-> 0, timeAvg |-> 0,
              breakdown |-> [ distCm |-> 0, distanceScore |-> 0, timeAvg |-> 0,
                              bucket |-> 0, penalties |-> 0, failed |-> FALSE ],
              none |-> TRUE ]

---------------------------------------------------------------------------
(* The inputs computeScore is checked on.  "points" is the shape that      *)
(* readPracticeForm and the meet rows build (the violation flags are named *)
(* competitionViolationPoints and constructionViolationPoints); "flags" is *)
(* the shape of a stored run, whose flags saveRun names                    *)
(* competitionViolation and constructionViolation.                         *)

ScoreDistances == { JNum(30000), JNum(-500), JEmpty, JUndef, JNaN }
ScoreTimes == { JNum(1000), JStr(1000), JStr(500), JStr(-100), JEmpty, JNaN }

MkInput(shape, d, t1, t2, t3, b, f, c, k) ==
    IF shape = "points"
    THEN [ vehicleDistanceCm |-> d, time1 |-> t1, time2 |-> t2, time3 |-> t3,
           bucketBonus |-> JBool(b), failedRun |-> JBool(f),
           competitionViolationPoints |-> JBool(c),
           constructionViolationPoints |-> JBool(k) ]
    ELSE [ vehicleDistanceCm |-> d, time1 |-> t1, time2 |-> t2, time3 |-> t3,
           bucketBonus |-> JBool(b), failedRun |-> JBool(f),
           competitionViolation |-> JBool(c),
           constructionViolation |-> JBool(k) ]

ScoreInputs ==
    { MkInput(sh, d, t1, t2, t3, b, f, c, k) :
        sh \in {"points", "flags"}, d \in ScoreDistances,
        t1 \in ScoreTimes, t2 \in ScoreTimes, t3 \in ScoreTimes,
        b \in BOOLEAN, f \in BOOLEAN, c \in BOOLEAN, k \in BOOLEAN }

Users == {"ann", "bob"}

\* The calls of the btnSignup handler that can be in flight.
MaxCalls == 2
Procs == 1..MaxCalls

\* pbkdf2Hash(password, saltBytes): a function of the two, one to one.
pbkdf2Hash(password, salt) == <<password, salt>>

\* The entry createUser writes (createdAt left out); bytesToB64 is one to
\* one, so the salt and the hash stand for their base64 texts.
userEntry(password, salt) == [saltB64 |-> salt, hashB64 |-> pbkdf2Hash(password, salt)]

\* A handler not started.
IdleCall == [pc |-> "idle", username |-> "", password |-> "", salt |-> 0, users |-> <<>>]

\* The accounts of Users, created before the page was loaded.
Registered == [u \in Users |-> userEntry("secret", 0)]

AuthInit(table) ==
    /\ users = table
    /\ calls = [p \in Procs |-> IdleCall]
    /\ authMsg = ""

AppInit ==
    /\ AuthInit(Registered)
    /\ currentUser = "null"
    /\ runs = <<>>
    /\ nextId = 0
    /\ filterTrackM = JEmpty
    /\ filterToleranceM = JEmpty
    /\ practiceSummary = <<>>
    /\ practiceMsg = [kind |-> "none", n |-> 0]
    /\ runsTable = <<>>
    /\ chartData = <<>>
    /\ summaryFresh = FALSE
    /\ saved = <<>>

InitScore ==
    /\ scoreInp \in ScoreInputs
    /\ scoreRes = NoResult
    /\ AppInit

\* A call computeScore(scoreInp).
callComputeScore ==
    /\ scoreRes = NoResult
    /\ scoreRes' = computeScore(scoreInp)
    /\ UNCHANGED <<scoreInp, appVars>>

NextScore == callComputeScore

SpecScore == InitScore /\ [][NextScore]_vars

---------------------------------------------------------------------------
(* The practice form, the run store and the handlers that change it.       *)
(* The page is loaded with the accounts of Users registered, nobody logged *)
(* in and no run stored.  createdAt and notes are carried by no modelled   *)
(* computation and are left out of a run.                                  *)

NoUser == "null"

MaxSaves == 3

\* x || y
OrElse(x, y) == IF Truthy(x) THEN x ELSE y

\* JSON.parse(JSON.stringify(v)) of a property value: NaN and Infinity are
\* written as null, an undefined property is dropped (and reads undefined).
JNull == [t |-> "null", v |-> 0]
jsonValue(v) ==
    CASE v.t \in {"nan", "inf"} -> JNull
      [] OTHER -> v

JsProps(o) == DOMAIN o \ {"id", "user"}
saveJSON(run) ==
    [f \in DOMAIN run |-> IF f \in JsProps(run) THEN jsonValue(run[f]) ELSE run[f]]

\* setRuns(all): what getRuns reads back after it.
setRuns(all) == [i \in 1..Len(all) |-> saveJSON(all[i])]

getUserRuns_everyone(all, user) == all
getUserRuns(all, user) == SelectSeq(all, LAMBDA r : r.user = user)

\* f: the form's fields. A text field holds a string; a checkbox is checked
\* or not; a violation select holds "150" / "300" (TRUE) or another value.
readPracticeForm(f) ==
    [ targetDistanceM |-> JNum(num(f.targetDistanceM)),
      vehicleDistanceCm |-> JNum(num(f.vehicleDistanceCm)),
      time1 |-> f.runTimeS1,
      time2 |-> f.runTimeS2,
      time3 |-> f.runTimeS3,
      carAngleDeg |-> JNum(num(f.carAngleDeg)),
      dialTurns |-> JNum(num(f.dialTurns)),
      winds |-> JNum(num(f.winds)),
      bucketBonus |-> JBool(f.bucketBonus),
      failedRun |-> JBool(f.failedRun),
      competitionViolationPoints |-> JBool(f.competitionViolation),
      constructionViolationPoints |-> JBool(f.constructionViolation) ]

newRun(id, user, inp, sc) ==
    [ id |-> id,
      user |-> user,
      targetDistanceM |-> inp.targetDistanceM,
      vehicleDistanceCm |-> IF Truthy(inp.failedRun) THEN JNum(failedDistCm)
                            ELSE inp.vehicleDistanceCm,
      time1 |-> OrElse(inp.time1, JEmpty),
      time2 |-> OrElse(inp.time2, JEmpty),
      time3 |-> OrElse(inp.time3, JEmpty),
      timeAvg |-> JNum(sc.timeAvg),
      bucketBonus |-> inp.bucketBonus,
      competitionViolation |-> inp.competitionViolationPoints,
      constructionViolation |-> inp.constructionViolationPoints,
      failedRun |-> inp.failedRun,
      carAngleDeg |-> inp.carAngleDeg,
      dialTurns |-> inp.dialTurns,
      winds |-> inp.winds,
      score |-> JNum(sc.total) ]

---------------------------------------------------------------------------
(* Practice summary.                                                       *)

\* The decimal ties of the model's values whose double lies at or above the
\* decimal (12.15 is stored as 12.150000000000000355...): toFixed rounds
\* the double, so these round up and any other tie rounds down.
DoubleAbove == {12150}

\* |v| thousandths formatted with d decimals: the sign and the digits, as a
\* count of 10^-d.  (-0.04).toFixed(1) is "-0.0".
toFixed_truncating(v, d) ==
    LET step == IF d = 0 THEN 1000 ELSE IF d = 1 THEN 100 ELSE 10
    IN  [neg |-> v < 0, mag |-> Abs(v) \div step]
toFixed(v, d) ==
    LET step == IF d = 0 THEN 1000 ELSE IF d = 1 THEN 100 ELSE 10
        a == Abs(v)
        r == a % step
        up == 2 * r > step \/ (2 * r = step /\ a \in DoubleAbove)
    IN  [neg |-> v < 0, mag |-> (a \div step) + (IF up THEN 1 ELSE 0)]

approxEq(a, b, t) == Abs(a - b) <= t

BlankKey == [blank |-> TRUE, neg |-> FALSE, mag |-> 0]
trackKey(m) ==
    LET mm == Number(m)
    IN  IF ~mm.fin \/ mm.v = 0 THEN BlankKey
        ELSE [blank |-> FALSE, neg |-> toFixed(mm.v, 2).neg, mag |-> toFixed(mm.v, 2).mag]

\* Number(k) of a key that is not "(blank)", in hundredths.
KeyNumber(k) == IF k.neg THEN -k.mag ELSE k.mag

setupKey(r) ==
    << toFixed(Number(OrElse(r.carAngleDeg, JNum(0))).v, 1),
       toFixed(Number(OrElse(r.dialTurns, JNum(0))).v, 2),
       toFixed(Number(OrElse(r.winds, JNum(0))).v, 0) >>

defaultTolerance == 5

\* tol: [null, v]. The tolerance the filter applies.
filterTolerance_alwaysDefault(tol) == defaultTolerance
filterTolerance(tol) == IF ~tol.null /\ tol.v > 0 THEN tol.v ELSE defaultTolerance

filterRuns_keepsAll(rs, targetStr, tolStr) == rs
filterRuns(rs, targetStr, tolStr) ==
    LET tol == IF Truthy(tolStr) THEN [null |-> FALSE, v |-> num(tolStr)]
               ELSE [null |-> TRUE, v |-> 0]
        t == num(targetStr)
    IN  IF Truthy(targetStr)
        THEN SelectSeq(rs, LAMBDA r : /\ r.targetDistanceM.t = "num"
                                      /\ approxEq(num(r.targetDistanceM), t, filterTolerance(tol)))
        ELSE rs

\* The keys of a Map filled in the order of s: each once, first seen first.
RECURSIVE MapKeys(_)
MapKeys(s) ==
    IF s = <<>> THEN <<>>
    ELSE LET before == MapKeys(SubSeq(s, 1, Len(s) - 1))
             x == s[Len(s)]
         IN  IF \E i \in 1..Len(before) : before[i] = x THEN before
             ELSE Append(before, x)

\* The comparator of keys.sort.
keyCompare_blankFirst(a, b) ==
    IF a.blank THEN -1 ELSE IF b.blank THEN 1 ELSE KeyNumber(a) - KeyNumber(b)
keyCompare(a, b) ==
    IF a.blank THEN 1 ELSE IF b.blank THEN -1 ELSE KeyNumber(a) - KeyNumber(b)

\* Array.prototype.sort is stable: x goes before the first element that
\* compares greater than it.
RECURSIVE InsertKey(_, _)
InsertKey(x, s) ==
    IF s = <<>> THEN <<x>>
    ELSE IF keyCompare(Head(s), x) > 0 THEN <<x>> \o s
    ELSE <<Head(s)>> \o InsertKey(x, Tail(s))

RECURSIVE SortKeys(_)
SortKeys(s) ==
    IF s = <<>> THEN <<>>
    ELSE InsertKey(s[Len(s)], SortKeys(SubSeq(s, 1, Len(s) - 1)))

\* rs.map(x => Number(x.score)).filter(Number.isFinite)
finiteScores_rederived(rs) == [i \in 1..Len(rs) |-> computeScore(rs[i]).total]
finiteScores(rs) ==
    LET fin == SelectSeq(rs, LAMBDA x : Number(x.score).fin)
    IN  [i \in 1..Len(fin) |-> Number(fin[i].score).v]

SeqMin_first(s) == s[1]
RECURSIVE SeqMin(_)
SeqMin(s) ==
    IF Len(s) = 1 THEN s[1]
    ELSE LET m == SeqMin(Tail(s)) IN IF Head(s) <= m THEN Head(s) ELSE m

\* best: [has, q], has = FALSE standing for Infinity.  val < best.
improves_orEqual(val, best) == ~best.has \/ ~QLess(best.q, val)
improves(val, best) == ~best.has \/ QLess(val, best.q)

NoSetup == [set |-> FALSE, sk |-> <<>>, val |-> 0, n |-> 0]
RankStart == [ bestAvgVal |-> [has |-> FALSE, q |-> Q(0, 1)], bestSetupAvg |-> NoSetup,
               bestSingleVal |-> [has |-> FALSE, q |-> Q(0, 1)], bestSetupSingle |-> NoSetup ]

\* One turn of the loop over bySetup.entries().
rankStep(acc, sk, sRuns) ==
    LET ss == finiteScores(sRuns)
        sAvg == Q(SeqSum(ss), Len(ss))
        sBest == Q(SeqMin(ss), 1)
        byAvg == improves(sAvg, acc.bestAvgVal)
        bySingle == improves(sBest, acc.bestSingleVal)
    IN  IF Len(ss) = 0 THEN acc
        ELSE [ bestAvgVal |-> IF byAvg THEN [has |-> TRUE, q |-> sAvg] ELSE acc.bestAvgVal,
               bestSetupAvg |-> IF byAvg
                                THEN [set |-> TRUE, sk |-> sk, val |-> round2(sAvg), n |-> Len(ss)]
                                ELSE acc.bestSetupAvg,
               bestSingleVal |-> IF bySingle THEN [has |-> TRUE, q |-> sBest] ELSE acc.bestSingleVal,
               bestSetupSingle |-> IF bySingle
                                   THEN [set |-> TRUE, sk |-> sk, val |-> round2(sBest), n |-> 0]
                                   ELSE acc.bestSetupSingle ]

RECURSIVE rankSetups(_, _)
rankSetups(sks, rs) ==
    IF sks = <<>> THEN RankStart
    ELSE LET sk == sks[Len(sks)]
         IN  rankStep(rankSetups(SubSeq(sks, 1, Len(sks) - 1), rs), sk,
                      SelectSeq(rs, LAMBDA r : setupKey(r) = sk))

summaryRow(k, rs) ==
    LET scores == finiteScores(rs)
        n == Len(scores)
        rank == rankSetups(MapKeys([i \in 1..Len(rs) |-> setupKey(rs[i])]), rs)
    IN  [ trackGroupM |-> k,
          runsCount |-> n,
          avgScore |-> IF n > 0 THEN JNum(round2(Q(SeqSum(scores), n))) ELSE JEmpty,
          bestScore |-> IF n > 0 THEN JNum(round2(Q(SeqMin(scores), 1))) ELSE JEmpty,
          bestSetupByAvg |-> rank.bestSetupAvg,
          bestSetupBySingle |-> rank.bestSetupSingle ]

Msg(kind, n) == [kind |-> kind, n |-> n]

\* What renderPracticeSummary leaves in window.__practiceSummary and in
\* #practiceMsg.
renderPracticeSummary(all, user, targetStr, tolStr) ==
    LET rs == filterRuns(getUserRuns(all, user), targetStr, tolStr)
        keys == SortKeys(MapKeys([i \in 1..Len(rs) |-> trackKey(rs[i].targetDistanceM)]))
    IN  IF Len(rs) = 0
        THEN [summary |-> <<>>, msg |-> Msg("noMatch", 0)]
        ELSE [ summary |-> [i \in 1..Len(keys) |->
                              summaryRow(keys[i],
                                         SelectSeq(rs, LAMBDA r : trackKey(r.targetDistanceM) = keys[i]))],
               msg |-> Msg("showing", Len(rs)) ]

\* The renders that end a handler, on the state the handler leaves.
Rendered(all, user) ==
    LET out == renderPracticeSummary(all, user, filterTrackM, filterToleranceM)
    IN  /\ practiceSummary' = out.summary
        /\ practiceMsg' = out.msg
        /\ summaryFresh' = TRUE

\* renderRunsTable: the user's runs, newest first (createdAt grows with the
\* position in the store), one row and one Delete button per run.
renderRunsTable(all, user) ==
    LET mine == getUserRuns(all, user)
    IN  [i \in 1..Len(mine) |-> mine[Len(mine) + 1 - i].id]

\* buildChartData: the user's runs, oldest first; the scores plotted.
buildChartData(all, user) ==
    LET mine == getUserRuns(all, user)
    IN  [i \in 1..Len(mine) |-> Number(mine[i].score).v]

\* renderRunsTable(); renderChart(); on the state a handler leaves.
Shown(all, user) ==
    /\ runsTable' = renderRunsTable(all, user)
    /\ chartData' = buildChartData(all, user)

---------------------------------------------------------------------------
(* Handlers.                                                               *)

\* The history kept for the runs of the store all.
Kept(all) == [id \in { all[i].id : i \in 1..Len(all) } \cap DOMAIN saved |-> saved[id]]

\* btnSave: saveRun on the form's fields f.
saveRun(f) ==
    /\ nextId < MaxSaves
    /\ IF currentUser = NoUser
       THEN UNCHANGED vars
       ELSE LET inp == readPracticeForm(f)
                sc == computeScore(inp)
                run == newRun(nextId + 1, currentUser, inp, sc)
                all == setRuns(Append(runs, run))
            IN  /\ runs' = all
                /\ nextId' = nextId + 1
                /\ saved' = [id \in DOMAIN saved \cup {run.id} |->
                                IF id = run.id
                                THEN [form |-> f, inp |-> inp, sc |-> sc, run |-> all[Len(all)]]
                                ELSE saved[id]]
                /\ Shown(all, currentUser)
                /\ Rendered(all, currentUser)
                /\ UNCHANGED <<scoreVars, authVars, currentUser, filterTrackM, filterToleranceM>>

\* The Delete button of a row of the runs table (the table is on screen while
\* a user is logged in); ok: the answer to confirm().
deleteRun(runId, ok) ==
    /\ currentUser # NoUser
    /\ \E k \in 1..Len(runsTable) : runsTable[k] = runId
    /\ IF ~ok
       THEN UNCHANGED vars
       ELSE LET all == setRuns(SelectSeq(runs, LAMBDA r : r.id # runId))
            IN  /\ runs' = all
                /\ saved' = Kept(all)
                /\ Shown(all, currentUser)
                /\ Rendered(all, currentUser)
                /\ UNCHANGED <<scoreVars, authVars, currentUser, nextId, filterTrackM, filterToleranceM>>

\* btnClearRuns.
clearMyRuns(ok) ==
    /\ currentUser # NoUser
    /\ IF ~ok
       THEN UNCHANGED vars
       ELSE LET all == setRuns(SelectSeq(runs, LAMBDA r : r.user # currentUser))
            IN  /\ runs' = all
                /\ saved' = Kept(all)
                /\ Shown(all, currentUser)
                /\ Rendered(all, currentUser)
                /\ UNCHANGED <<scoreVars, authVars, currentUser, nextId, filterTrackM, filterToleranceM>>

\* The user types into the two filter fields; no handler runs.
editFilter(targetStr, tolStr) ==
    /\ <<targetStr, tolStr>> # <<filterTrackM, filterToleranceM>>
    /\ filterTrackM' = targetStr
    /\ filterToleranceM' = tolStr
    /\ summaryFresh' = FALSE
    /\ UNCHANGED <<scoreVars, authVars, currentUser, runs, nextId, practiceSummary, practiceMsg,
                   runsTable, chartData, saved>>

\* btnApplyPractice.
applyPractice ==
    /\ Rendered(runs, currentUser)
    /\ UNCHANGED <<scoreVars, authVars, currentUser, runs, nextId, filterTrackM, filterToleranceM,
                   runsTable, chartData, saved>>

\* btnLogin with the right password, then setAuthedUI.
login(u) ==
    /\ currentUser = NoUser
    /\ u \in DOMAIN users
    /\ currentUser' = u
    /\ authMsg' = "Logged in."
    /\ Shown(runs, u)
    /\ Rendered(runs, u)
    /\ UNCHANGED <<scoreVars, users, calls, runs, nextId, filterTrackM, filterToleranceM, saved>>

\* btnLogout: setLoggedOutUI renders nothing.
logout ==
    /\ currentUser # NoUser
    /\ currentUser' = NoUser
    /\ authMsg' = ""
    /\ summaryFresh' = FALSE
    /\ UNCHANGED <<scoreVars, users, calls, runs, nextId, filterTrackM, filterToleranceM,
                   practiceSummary, practiceMsg, runsTable, chartData, saved>>

\* The form fields a save is tried with.
MkForm(target, dist, setup) ==
    [ targetDistanceM |-> target, vehicleDistanceCm |-> dist,
      runTimeS1 |-> JStr(1000), runTimeS2 |-> JStr(1000), runTimeS3 |-> JStr(1000),
      carAngleDeg |-> setup[1], dialTurns |-> setup[2], winds |-> setup[3],
      bucketBonus |-> FALSE, failedRun |-> FALSE,
      competitionViolation |-> FALSE, constructionViolation |-> FALSE ]

SetupA == <<JStr(12040), JStr(1500), JStr(10000)>>

\* Targets: blank, 4.999, 5.001, 10.
TrackForms ==
    { MkForm(t, d, SetupA) :
        t \in {JEmpty, JStr(4999), JStr(5001), JStr(10000)}, d \in {JStr(25000)} }

\* Filter fields <<target, tolerance>>: both blank; target 5 with the
\* tolerance blank, 0 or 5.
\* In Spec one account, ann's, logs in and out; SpecStore has both.
Filters == { <<JEmpty, JEmpty>>, <<JStr(5000), JEmpty>>,
             <<JStr(5000), JStr(0)>>, <<JStr(5000), JStr(5000)>> }

Init ==
    /\ scoreInp = MkInput("points", JEmpty, JEmpty, JEmpty, JEmpty, FALSE, FALSE, FALSE, FALSE)
    /\ scoreRes = NoResult
    /\ AppInit

Next ==
    \/ \E f \in TrackForms : saveRun(f)
    \/ \E i \in 1..MaxSaves, ok \in BOOLEAN : deleteRun(i, ok)
    \/ \E ok \in BOOLEAN : clearMyRuns(ok)
    \/ \E ft \in Filters : editFilter(ft[1], ft[2])
    \/ applyPractice
    \/ login("ann")
    \/ logout

Spec == Init /\ [][Next]_vars

\* Setups: A = (12.04, 1.5, 10); B and C differ from A in the angle (12.06,
\* 12.15); D differs from A within the rounding (1.504 turns, 10.4 winds);
\* E has the angle -0.04 and Z a blank angle field.
SetupB == <<JStr(12060), JStr(1500), JStr(10000)>>
SetupC == <<JStr(12150), JStr(1500), JStr(10000)>>
SetupD == <<JStr(12040), JStr(1504), JStr(10400)>>
SetupE == <<JStr(-40), JStr(1500), JStr(10000)>>
SetupZ == <<JEmpty, JStr(1500), JStr(10000)>>

\* Targets 5.001 and 10, every setup, one distance (score 610).
SetupForms ==
    { MkForm(t, d, su) :
        t \in {JStr(5001), JStr(10000)},
        d \in {JStr(25000)},
        su \in {SetupA, SetupB, SetupC, SetupD, SetupE, SetupZ} }

\* Targets 5.001 and 10; distances 250, 260 and 300 cm (scores 610, 630 and
\* 710); setups A and B.
RankForms ==
    { MkForm(t, d, su) :
        t \in {JStr(5001), JStr(10000)},
        d \in {JStr(25000), JStr(26000), JStr(30000)},
        su \in {SetupA, SetupB} }

\* The page loaded with ann's session stored: wire calls setAuthedUI("ann").
InitSetup ==
    /\ scoreInp = MkInput("points", JEmpty, JEmpty, JEmpty, JEmpty, FALSE, FALSE, FALSE, FALSE)
    /\ scoreRes = NoResult
    /\ AuthInit(Registered)
    /\ currentUser = "ann"
    /\ runs = <<>>
    /\ nextId = 0
    /\ filterTrackM = JEmpty
    /\ filterToleranceM = JEmpty
    /\ practiceSummary = renderPracticeSummary(<<>>, "ann", JEmpty, JEmpty).summary
    /\ practiceMsg = renderPracticeSummary(<<>>, "ann", JEmpty, JEmpty).msg
    /\ runsTable = <<>>
    /\ chartData = <<>>
    /\ summaryFresh = TRUE
    /\ saved = <<>>

NextSetup ==
    \/ \E f \in SetupForms : saveRun(f)
    \/ \E i \in 1..MaxSaves, ok \in BOOLEAN : deleteRun(i, ok)

SpecSetup == InitSetup /\ [][NextSetup]_vars

NextRank ==
    \/ \E f \in RankForms : saveRun(f)
    \/ \E i \in 1..MaxSaves, ok \in BOOLEAN : deleteRun(i, ok)

SpecRank == InitSetup /\ [][NextRank]_vars

\* btnExportRuns, btnExportChart and the chartMode select (renderChart): each
\* reads getUserRuns(currentUser), sorts a copy (slice) and writes nothing
\* that is modelled.
exportRunsCSV ==
    /\ currentUser # NoUser
    /\ UNCHANGED vars

---------------------------------------------------------------------------
(* Signing up.  The btnSignup handler runs createUser up to its await, and *)
(* the rest of createUser and of the handler when the hash is there; other *)
(* handlers run in between.  The auth card, with the button, is on screen  *)
(* while nobody is logged in.                                              *)

\* users[username] = {...} on the table createUser read.
withUser(table, username, entry) ==
    [u \in DOMAIN table \cup {username} |-> IF u = username THEN entry ELSE table[u]]

\* The click: the two length checks, then createUser down to the await. The
\* salt is random; the call's number stands for it.
btnSignup(p, username, password) ==
    /\ currentUser = NoUser
    /\ calls[p].pc = "idle"
    /\ IF Len(username) < 3
       THEN /\ authMsg' = "Username must be at least 3 characters."
            /\ UNCHANGED <<users, calls>>
       ELSE IF Len(password) < 6
       THEN /\ authMsg' = "Password must be at least 6 characters."
            /\ UNCHANGED <<users, calls>>
       ELSE IF username \in DOMAIN users
       THEN /\ authMsg' = "That username already exists."
            /\ calls' = [calls EXCEPT ![p] = [pc |-> "failed", username |-> username,
                                              password |-> password, salt |-> 0,
                                              users |-> users]]
            /\ UNCHANGED users
       ELSE /\ calls' = [calls EXCEPT ![p] = [pc |-> "hashing", username |-> username,
                                              password |-> password, salt |-> p,
                                              users |-> users]]
            /\ UNCHANGED <<users, authMsg>>
    /\ UNCHANGED <<scoreVars, currentUser, runs, nextId, filterTrackM, filterToleranceM,
                   practiceSummary, practiceMsg, runsTable, chartData, summaryFresh, saved>>

\* The hash is there: createUser writes its table back, and the handler goes
\* on with setSession, the message and setAuthedUI.
signupResume(p) ==
    /\ calls[p].pc = "hashing"
    /\ users' = withUser(calls[p].users, calls[p].username,
                         userEntry(calls[p].password, calls[p].salt))
    /\ calls' = [calls EXCEPT ![p].pc = "done"]
    /\ authMsg' = "Account created. Logged in."
    /\ currentUser' = calls[p].username
    /\ Shown(runs, calls[p].username)
    /\ Rendered(runs, calls[p].username)
    /\ UNCHANGED <<scoreVars, runs, nextId, filterTrackM, filterToleranceM, saved>>

SignupNames == {"ann", "bob", "al"}
SignupPasswords == {"secret1", "secret2", "pw"}

\* The page loaded with no account and no session.
InitSignup ==
    /\ scoreInp = MkInput("points", JEmpty, JEmpty, JEmpty, JEmpty, FALSE, FALSE, FALSE, FALSE)
    /\ scoreRes = NoResult
    /\ AuthInit(<<>>)
    /\ currentUser = NoUser
    /\ runs = <<>>
    /\ nextId = 0
    /\ filterTrackM = JEmpty
    /\ filterToleranceM = JEmpty
    /\ practiceSummary = <<>>
    /\ practiceMsg = Msg("none", 0)
    /\ runsTable = <<>>
    /\ chartData = <<>>
    /\ summaryFresh = FALSE
    /\ saved = <<>>

NextSignup ==
    \/ \E p \in Procs, u \in SignupNames, pw \in SignupPasswords : btnSignup(p, u, pw)
    \/ \E p \in Procs : signupResume(p)
    \/ \E u \in Users : login(u)
    \/ logout

SpecSignup == InitSignup /\ [][NextSignup]_vars

\* btnExportPractice: with no row in window.__practiceSummary it only writes
\* the message; otherwise it downloads the rows and writes nothing.
exportPracticeSummaryCSV ==
    /\ currentUser # NoUser
    /\ practiceMsg' = IF Len(practiceSummary) = 0 THEN Msg("nothingToExport", 0)
                      ELSE practiceMsg
    /\ UNCHANGED <<scoreVars, authVars, currentUser, runs, nextId, filterTrackM, filterToleranceM,
                   practiceSummary, runsTable, chartData, summaryFresh, saved>>

\* Forms of the export specification: targets 5.001 and 10.
ExportForms == { MkForm(t, JStr(25000), SetupA) : t \in {JStr(5001), JStr(10000)} }

NextExport ==
    \/ \E f \in ExportForms : saveRun(f)
    \/ \E i \in 1..MaxSaves, ok \in BOOLEAN : deleteRun(i, ok)
    \/ \E ok \in BOOLEAN : clearMyRuns(ok)
    \/ \E ft \in Filters : editFilter(ft[1], ft[2])
    \/ applyPractice
    \/ exportPracticeSummaryCSV

SpecExport == InitSetup /\ [][NextExport]_vars

\* Forms of the store specification: target 5.001, distance 250 cm, times
\* 10/10/10; plain (610), with the competition violation (760), and a failed
\* run (5100).
MkFlagForm(c, failedRun) ==
    [MkForm(JStr(5001), JStr(25000), SetupA) EXCEPT
        !.competitionViolation = c, !.failedRun = failedRun]
StoreForms == { MkFlagForm(FALSE, FALSE), MkFlagForm(TRUE, FALSE), MkFlagForm(FALSE, TRUE) }

NextStore ==
    \/ \E f \in StoreForms : saveRun(f)
    \/ \E i \in 1..MaxSaves, ok \in BOOLEAN : deleteRun(i, ok)
    \/ \E ok \in BOOLEAN : clearMyRuns(ok)
    \/ applyPractice
    \/ exportRunsCSV
    \/ \E u \in Users : login(u)
    \/ logout

SpecStore == Init /\ [][NextStore]_vars

---------------------------------------------------------------------------
(* Claims about computeScore, checked under SpecScore.                     *)

Scored == scoreRes # NoResult
InpFailed == Truthy(Field(scoreInp, "failedRun"))
InpBonus == Truthy(Field(scoreInp, "bucketBonus"))
NoViolationFlag ==
    \A f \in { "competitionViolation", "constructionViolation",
               "competitionViolationPoints", "constructionViolationPoints" } :
        ~Truthy(Field(scoreInp, f))

\* The spec's example input: distance 300, times 10/10/10.
IsExample(b, c, k) ==
    /\ scoreInp.vehicleDistanceCm = JNum(30000)
    /\ scoreInp.time1 = JNum(1000) /\ scoreInp.time2 = JNum(1000) /\ scoreInp.time3 = JNum(1000)
    /\ ~InpFailed /\ InpBonus = b
    /\ Truthy(Field(scoreInp, "competitionViolation")) = c
    /\ Truthy(Field(scoreInp, "constructionViolation")) = k

\* C1: with failedRun false and no violation flag, total is
\* 100 + 2.0 * distance + time average + bucket adjustment, rounded half up to
\* two decimals, the adjustment being -100 with the bonus and 0 without; the
\* example scores 710.00 without the bonus and 610.00 with it.  The time
\* average is the one avgOfTimes computes; a distance that is no finite number
\* counts 0.
C1_TotalComposition ==
    (Scored /\ ~InpFailed /\ NoViolationFlag) =>
        LET a == avgOfTimes(scoreInp.time1, scoreInp.time2, scoreInp.time3)
            d == Number(scoreInp.vehicleDistanceCm)
            dist == IF d.fin THEN d.v ELSE 0
            adj == IF InpBonus THEN -10000 ELSE 0
            n == a.n + (10000 + 2 * dist + adj) * a.d
        IN  /\ scoreRes.total = (2 * n + a.d) \div (2 * a.d)
            /\ IsExample(FALSE, FALSE, FALSE) => scoreRes.total = 71000
            /\ IsExample(TRUE, FALSE, FALSE) => scoreRes.total = 61000

C1_Witness ==
    Scored /\ IsExample(TRUE, FALSE, FALSE) /\ scoreRes.total = 61000

\* C2: computeScore adds 150 when the input's competitionViolation flag is set
\* and 300 when its constructionViolation flag is set; breakdown.penalties is
\* that sum, and the example input with both flags set scores 1160.00.
C2_PenaltiesFromViolationFlags ==
    (Scored /\ "competitionViolation" \in DOMAIN scoreInp) =>
        /\ scoreRes.breakdown.penalties =
              (IF Truthy(scoreInp.competitionViolation) THEN 15000 ELSE 0)
            + (IF Truthy(scoreInp.constructionViolation) THEN 30000 ELSE 0)
        /\ IsExample(FALSE, TRUE, TRUE) => scoreRes.total = 116000

\* C3: the time average is the mean of the entries that are non-empty, finite
\* and >= 0; an empty entry counts neither in the sum nor in the divisor; the
\* average is 0 when no entry is valid.
C3_Valid(x) == x.t # "empty" /\ x.t \in {"num", "str"} /\ x.v >= 0
C3_AverageSkipsEmptyEntries ==
    (Scored /\ ~InpFailed) =>
        LET ts == SelectSeq(<<scoreInp.time1, scoreInp.time2, scoreInp.time3>>, C3_Valid)
            sum == SeqSum([i \in 1..Len(ts) |-> ts[i].v])
        IN  IF Len(ts) = 0 THEN scoreRes.timeAvg = 0
            ELSE scoreRes.timeAvg = (2 * sum + Len(ts)) \div (2 * Len(ts))

\* C4: with failedRun false, a negative or missing distance counts as 0:
\* breakdown.distCm = 0 and the distance score is 0.
C4_Missing(d) == d.t \in {"empty", "undef", "nan"} \/ (d.t \in {"num", "str"} /\ d.v < 0)
C4_NegativeDistanceIsZero ==
    (Scored /\ ~InpFailed /\ C4_Missing(scoreInp.vehicleDistanceCm)) =>
        /\ scoreRes.breakdown.distCm = 0
        /\ scoreRes.breakdown.distanceScore = 0

\* C5: with failedRun true, breakdown.distCm = 2500 and timeAvg = 0, whatever
\* the distance and the times are, and total = 100 + 5000 + bucket adjustment
\* + the penalties applied.
C5_FailedRunOverride ==
    (Scored /\ InpFailed) =>
        /\ scoreRes.breakdown.distCm = 250000
        /\ scoreRes.timeAvg = 0
        /\ scoreRes.breakdown.timeAvg = 0
        /\ scoreRes.total = 10000 + 500000 + (IF InpBonus THEN -10000 ELSE 0)
                            + scoreRes.breakdown.penalties

C5_Witness ==
    /\ Scored /\ InpFailed
    /\ scoreInp.vehicleDistanceCm = JNum(30000)
    /\ scoreInp.time1 = JStr(500)
    /\ scoreRes.breakdown.distCm = 250000 /\ scoreRes.timeAvg = 0

---------------------------------------------------------------------------
(* Claims about the summary's filter and track groups, checked under Spec. *)

\* The current user's runs, by position in the store.
Mine == { i \in 1..Len(runs) : runs[i].user = currentUser }
TargetOf(i) == runs[i].targetDistanceM.v
FilterOn == filterTrackM # JEmpty
Distance(i) == IF TargetOf(i) >= filterTrackM.v THEN TargetOf(i) - filterTrackM.v
               ELSE filterTrackM.v - TargetOf(i)
RowsOf(k) == { j \in 1..Len(practiceSummary) : practiceSummary[j].trackGroupM = k }

\* The summary is computed over exactly the runs of K: each row counts the
\* runs of K that have its key, every run of K has a row, and the message
\* counts K.
ComputedOver(K) ==
    /\ \A j \in 1..Len(practiceSummary) :
          LET in == { i \in K : trackKey(runs[i].targetDistanceM)
                                    = practiceSummary[j].trackGroupM }
          IN  in # {} /\ practiceSummary[j].runsCount = Cardinality(in)
    /\ \A i \in K : RowsOf(trackKey(runs[i].targetDistanceM)) # {}
    /\ practiceMsg = IF K = {} THEN Msg("noMatch", 0) ELSE Msg("showing", Cardinality(K))

\* C6: while a target filter is active, no run whose targetDistanceM is unset
\* (stored as 0) is in a summary row: such runs make up the "(blank)" row, so
\* the summary has none.
C6_FilterExcludesUnsetTarget ==
    (summaryFresh /\ FilterOn) =>
        \A j \in 1..Len(practiceSummary) : ~practiceSummary[j].trackGroupM.blank

\* C7 as claimed: with a target filter, the summary is computed over exactly
\* the runs within toleranceM of the target when a tolerance is given, and
\* within 0.005 when none is given.
C7_GivenToleranceAlwaysUsed ==
    (summaryFresh /\ FilterOn) =>
        LET tol == IF filterToleranceM # JEmpty THEN filterToleranceM.v ELSE 5
        IN  ComputedOver({ i \in Mine : Distance(i) <= tol })

\* C7 as amended: the given tolerance is used when it is positive; with no
\* tolerance, or one that is zero or negative, the runs within 0.005 are kept.
C7_PositiveToleranceElseDefault ==
    (summaryFresh /\ FilterOn) =>
        LET tol == IF filterToleranceM # JEmpty /\ filterToleranceM.v > 0
                   THEN filterToleranceM.v ELSE 5
        IN  ComputedOver({ i \in Mine : Distance(i) <= tol })

\* Target 5 with tolerance 5 keeps a run at 10 m, which the default would drop.
C7_Witness ==
    /\ summaryFresh /\ filterTrackM = JStr(5000) /\ filterToleranceM = JStr(5000)
    /\ \E i \in Mine : TargetOf(i) = 10000
    /\ \E i \in Mine : TargetOf(i) = 4999
    /\ \E j \in 1..Len(practiceSummary) : practiceSummary[j].trackGroupM.mag = 1000

\* The runs the summary is made of.
Surviving ==
    IF FilterOn
    THEN LET tol == IF filterToleranceM # JEmpty /\ filterToleranceM.v > 0
                    THEN filterToleranceM.v ELSE 5
         IN  { i \in Mine : Distance(i) <= tol }
    ELSE Mine

\* k is the key of a target of v thousandths: the sentinel for 0, else the
\* sign and the nearest count of hundredths.
IsKeyOf(k, v) ==
    IF v = 0 THEN k.blank
    ELSE /\ ~k.blank
         /\ k.neg = (v < 0)
         /\ 2 * (IF 10 * k.mag >= v THEN 10 * k.mag - v ELSE v - 10 * k.mag) <= 10

\* C9: one row per distinct track key of the surviving runs, the key being
\* the target to two decimals (4.999 and 5.001 share "5.00", whatever the
\* tolerance) or the sentinel for an unset target; rows ascend by the numeric
\* value of the key (10.00 after 5.00) and the sentinel row is last.
C9_OneRowPerKeyInNumericOrder ==
    summaryFresh =>
        /\ \A i, j \in 1..Len(practiceSummary) :
              i # j => practiceSummary[i].trackGroupM # practiceSummary[j].trackGroupM
        /\ \A i \in Surviving :
              \E j \in 1..Len(practiceSummary) : IsKeyOf(practiceSummary[j].trackGroupM, TargetOf(i))
        /\ \A j \in 1..Len(practiceSummary) :
              \E i \in Surviving : IsKeyOf(practiceSummary[j].trackGroupM, TargetOf(i))
        /\ \A i \in Surviving :
              TargetOf(i) \in {4999, 5001} =>
                  \E j \in 1..Len(practiceSummary) :
                      practiceSummary[j].trackGroupM = [blank |-> FALSE, neg |-> FALSE, mag |-> 500]
        /\ \A i, j \in 1..Len(practiceSummary) :
              i < j =>
                  /\ ~practiceSummary[i].trackGroupM.blank
                  /\ \/ practiceSummary[j].trackGroupM.blank
                     \/ practiceSummary[i].trackGroupM.mag <= practiceSummary[j].trackGroupM.mag

\* Saved in the order blank, 10, 4.999; shown as 5.00, 10.00, (blank).
C9_Witness ==
    /\ summaryFresh /\ ~FilterOn /\ Mine = {1, 2, 3}
    /\ TargetOf(1) = 0 /\ TargetOf(2) = 10000 /\ TargetOf(3) = 4999
    /\ Len(practiceSummary) = 3
    /\ practiceSummary[1].trackGroupM.mag = 500
    /\ practiceSummary[2].trackGroupM.mag = 1000
    /\ practiceSummary[3].trackGroupM.blank

---------------------------------------------------------------------------
(* Claims about setup keys, checked under SpecSetup, and about the ranking *)
(* of setups, checked under SpecRank (no filter: every run of the user is  *)
(* in the summary).                                                        *)

AngleOf(i) == runs[i].carAngleDeg.v
SameTurnsAndWinds(i, j) == runs[i].dialTurns = runs[j].dialTurns /\ runs[i].winds = runs[j].winds
TrackGroup(k) == { i \in Mine : trackKey(runs[i].targetDistanceM) = k }

\* v thousandths to the nearest multiple of step, as printed: the sign (kept
\* when the digits are all 0) and the count of steps; a decimal tie goes the
\* way the double lies.
Printed(v, step) ==
    LET a == IF v < 0 THEN -v ELSE v
        halfUp == (2 * a + step) \div (2 * step)
        tieDown == (2 * a) % (2 * step) = step /\ a \notin DoubleAbove
    IN  [neg |-> v < 0, mag |-> IF tieDown THEN halfUp - 1 ELSE halfUp]
PrintedSetup(i) ==
    << Printed(runs[i].carAngleDeg.v, 100), Printed(runs[i].dialTurns.v, 10),
       Printed(runs[i].winds.v, 1000) >>

\* C8 as claimed: angles 12.04 and 12.06 (same dialTurns and winds) get the
\* same setup key, 12.04 and 12.15 get different keys.
C8_Angles1204And1206ShareKey ==
    \A i, j \in 1..Len(runs) :
        (AngleOf(i) = 12040 /\ SameTurnsAndWinds(i, j)) =>
            /\ AngleOf(j) = 12060 => setupKey(runs[i]) = setupKey(runs[j])
            /\ AngleOf(j) = 12150 => setupKey(runs[i]) # setupKey(runs[j])

\* C8 as amended: 12.04 prints as 12.0, 12.06 as 12.1 and 12.15 as 12.2, so
\* 12.04 shares a key with neither; two runs have the same setup key exactly
\* when angle, dialTurns and winds print alike at 1, 2 and 0 decimals (sign
\* included: -0.04 prints "-0.0", not "0.0"); and the sample count a row
\* reports for its best setup is the number of the track group's runs that
\* print like it.
C8_SetupKeyIsPrintedTriple ==
    /\ \A i, j \in 1..Len(runs) :
          /\ (AngleOf(i) = 12040 /\ AngleOf(j) \in {12060, 12150}) =>
                 setupKey(runs[i]) # setupKey(runs[j])
          /\ (setupKey(runs[i]) = setupKey(runs[j])) <=> (PrintedSetup(i) = PrintedSetup(j))
    /\ summaryFresh =>
          \A r \in 1..Len(practiceSummary) :
              LET row == practiceSummary[r]
                  G == TrackGroup(row.trackGroupM)
              IN  \E i \in G :
                      /\ row.bestSetupByAvg.sk = PrintedSetup(i)
                      /\ row.bestSetupByAvg.n =
                             Cardinality({ j \in G : PrintedSetup(j) = PrintedSetup(i) })

\* Two runs of one track, angles 12.04 and 12.06, are two setups of one run each.
C8_Witness ==
    /\ summaryFresh /\ Len(runs) = 2 /\ Mine = {1, 2}
    /\ AngleOf(1) = 12040 /\ AngleOf(2) = 12060 /\ SameTurnsAndWinds(1, 2)
    /\ runs[1].targetDistanceM = runs[2].targetDistanceM
    /\ runs[1].score = runs[2].score
    /\ Len(practiceSummary) = 1
    /\ practiceSummary[1].bestSetupByAvg.n = 1
    /\ practiceSummary[1].bestSetupByAvg.sk[1] = [neg |-> FALSE, mag |-> 120]

ScoreOf(i) == runs[i].score.v
RECURSIVE ScoreSum(_)
ScoreSum(I) == IF I = {} THEN 0
               ELSE LET i == CHOOSE x \in I : TRUE IN ScoreOf(i) + ScoreSum(I \ {i})
LeastOf(I) == CHOOSE i \in I : \A j \in I : i <= j
LowestIn(I) == ScoreOf(CHOOSE i \in I : \A j \in I : ScoreOf(i) <= ScoreOf(j))

\* The setup sub-groups of a track group: sets of positions in the store.
SubGroups(G) == { { j \in G : setupKey(runs[j]) = setupKey(runs[i]) } : i \in G }

\* C10: in each track group, bestSetupByAvg names the sub-group of lowest mean
\* score, with the mean rounded to two decimals and the sample count, and
\* bestSetupBySingle names the sub-group holding the lowest single score; of
\* sub-groups that tie, the one whose first run is earliest in the store wins.
C10_BestSetups ==
    summaryFresh =>
        \A r \in 1..Len(practiceSummary) :
            LET row == practiceSummary[r]
                SG == SubGroups(TrackGroup(row.trackGroupM))
            IN  /\ \E A \in SG :
                      /\ row.bestSetupByAvg.sk = setupKey(runs[LeastOf(A)])
                      /\ row.bestSetupByAvg.n = Cardinality(A)
                      /\ row.bestSetupByAvg.val =
                             (2 * ScoreSum(A) + Cardinality(A)) \div (2 * Cardinality(A))
                      /\ \A B \in SG \ {A} :
                             LET a == ScoreSum(A) * Cardinality(B)
                                 b == ScoreSum(B) * Cardinality(A)
                             IN  a < b \/ (a = b /\ LeastOf(A) < LeastOf(B))
                /\ \E A \in SG :
                      /\ row.bestSetupBySingle.sk = setupKey(runs[LeastOf(A)])
                      /\ row.bestSetupBySingle.val = LowestIn(A)
                      /\ \A B \in SG \ {A} :
                             \/ LowestIn(A) < LowestIn(B)
                             \/ (LowestIn(A) = LowestIn(B) /\ LeastOf(A) < LeastOf(B))

\* Setup A scored 610 and 710 (mean 660), setup B 630: B is best by average,
\* A by single score.
C10_Witness ==
    /\ summaryFresh /\ Len(runs) = 3 /\ Len(practiceSummary) = 1
    /\ ScoreOf(1) = 61000 /\ ScoreOf(2) = 71000 /\ ScoreOf(3) = 63000
    /\ AngleOf(1) = 12040 /\ AngleOf(2) = 12040 /\ AngleOf(3) = 12060
    /\ practiceSummary[1].bestSetupByAvg.sk = setupKey(runs[3])
    /\ practiceSummary[1].bestSetupByAvg.val = 63000
    /\ practiceSummary[1].bestSetupBySingle.sk = setupKey(runs[1])
    /\ practiceSummary[1].bestSetupBySingle.val = 61000
    /\ setupKey(runs[1]) # setupKey(runs[3])

---------------------------------------------------------------------------
(* Claims about a row's count, mean and minimum, checked under SpecRank.   *)

\* Two stored runs saved from the same form input: alike but for the id.
SameInput(i, j) ==
    [f \in DOMAIN runs[i] \ {"id"} |-> runs[i][f]] = [f \in DOMAIN runs[j] \ {"id"} |-> runs[j][f]]

\* C11: for every track group of the summary, runsCount is the number of runs
\* of the group, avgScore the arithmetic mean of their cached scores rounded
\* to two decimals and bestScore the least cached score; a group made of two
\* runs saved from the same input has count 2 and average and best both equal
\* to the common score.
C11_CountMeanMin ==
    summaryFresh =>
        \A r \in 1..Len(practiceSummary) :
            LET row == practiceSummary[r]
                G == TrackGroup(row.trackGroupM) \cap Surviving
                n == Cardinality(G)
            IN  /\ n > 0
                /\ row.runsCount = n
                /\ row.avgScore = JNum((2 * ScoreSum(G) + n) \div (2 * n))
                /\ \E i \in G : /\ row.bestScore = runs[i].score
                                 /\ \A j \in G : ScoreOf(i) <= ScoreOf(j)
                /\ \A i, j \in G :
                       (G = {i, j} /\ i # j /\ SameInput(i, j)) =>
                           /\ row.runsCount = 2
                           /\ row.avgScore = runs[i].score
                           /\ row.bestScore = runs[i].score

\* Scores 710, 610 and 710 in one group: count 3, mean 676.67, best 610.
C11_Witness ==
    /\ summaryFresh /\ Len(runs) = 3 /\ Len(practiceSummary) = 1
    /\ ScoreOf(1) = 71000 /\ ScoreOf(2) = 61000 /\ ScoreOf(3) = 71000
    /\ SameInput(1, 3)
    /\ practiceSummary[1].runsCount = 3
    /\ practiceSummary[1].avgScore = JNum(67667)
    /\ practiceSummary[1].bestScore = JNum(61000)

\* Two runs saved from the same input: count 2, mean and best 630.
C11_WitnessTwice ==
    /\ summaryFresh /\ Len(runs) = 2 /\ Len(practiceSummary) = 1
    /\ SameInput(1, 2) /\ ScoreOf(1) = 63000
    /\ practiceSummary[1].runsCount = 2
    /\ practiceSummary[1].avgScore = JNum(63000)
    /\ practiceSummary[1].bestScore = JNum(63000)

---------------------------------------------------------------------------
(* Claims about the run store, checked under SpecStore.                    *)

\* The total of a form of StoreForms, by the scoring rule.
FormTotal(f) ==
    10000 + (IF f.failedRun THEN 500000 ELSE 2 * f.vehicleDistanceCm.v + 1000)
          + (IF f.competitionViolation THEN 15000 ELSE 0)
FormTimeAvg(f) == IF f.failedRun THEN 0 ELSE 1000

\* C12: every stored run's score and timeAvg are the total and timeAvg that
\* computeScore returned for the form input when saveRun ran; every field of a
\* stored run is as saveRun wrote it, whatever was saved, deleted, cleared,
\* rendered or exported since; and the summary's mean and best are those of
\* the stored scores, not of scores derived again from the runs' fields.
C12_CachedScoreImmutable ==
    /\ \A i \in 1..Len(runs) :
          /\ runs[i].id \in DOMAIN saved
          /\ LET s == saved[runs[i].id]
             IN  /\ runs[i] = s.run
                 /\ s.sc = computeScore(s.inp)
                 /\ runs[i].score = JNum(s.sc.total)
                 /\ runs[i].timeAvg = JNum(s.sc.timeAvg)
                 /\ runs[i].score = JNum(FormTotal(s.form))
                 /\ runs[i].timeAvg = JNum(FormTimeAvg(s.form))
    /\ summaryFresh =>
          \A r \in 1..Len(practiceSummary) :
              LET G == Mine
              IN  /\ practiceSummary[r].avgScore =
                        JNum((2 * ScoreSum(G) + Cardinality(G)) \div (2 * Cardinality(G)))
                  /\ practiceSummary[r].bestScore = JNum(LowestIn(G))

\* bob's run with the violation (cached 760; its stored fields score 610 when
\* handed to computeScore) is still as saved after ann saved, deleted and
\* cleared her runs, and bob's summary shows 760.
C12_Witness ==
    /\ currentUser = "bob" /\ summaryFresh
    /\ Len(runs) = 1 /\ runs[1].user = "bob" /\ runs[1].id = 1 /\ nextId = 3
    /\ runs[1].score = JNum(76000)
    /\ computeScore(runs[1]).total = 61000
    /\ Len(practiceSummary) = 1
    /\ practiceSummary[1].avgScore = JNum(76000)

\* The stored runs of user u, and the ids in the store.
RunsOf(all, u) == SelectSeq(all, LAMBDA r : r.user = u)
IdsOf(all) == { all[i].id : i \in 1..Len(all) }
Without(all, ids) == SelectSeq(all, LAMBDA r : r.id \notin ids)

\* What a step did to the store.
StoreKept == runs' = runs
StoreSaved == /\ Len(runs') = Len(runs) + 1
              /\ SubSeq(runs', 1, Len(runs)) = runs
              /\ runs'[Len(runs')].user = currentUser
              /\ runs'[Len(runs')].id \notin IdsOf(runs)
StoreDeletedOne == \E id \in IdsOf(RunsOf(runs, currentUser)) : runs' = Without(runs, {id})
StoreCleared == /\ RunsOf(runs, currentUser) # <<>>
                /\ runs' = Without(runs, IdsOf(RunsOf(runs, currentUser)))

\* What is on screen after the step shows the runs of the logged-in user only.
ShowsOwnRunsOnly ==
    currentUser' # NoUser =>
        LET own == RunsOf(runs', currentUser')
        IN  /\ \A k \in 1..Len(runsTable') : runsTable'[k] \in IdsOf(own)
            /\ Len(runsTable') = Len(own)
            /\ Len(chartData') = Len(own)
            /\ \A k \in 1..Len(chartData') : chartData'[k] = own[k].score.v
            /\ summaryFresh' =>
                   SeqSum([j \in 1..Len(practiceSummary') |-> practiceSummary'[j].runsCount])
                       = Len(own)

\* C13: a step leaves every run of every user other than the logged-in one in
\* the store as it was; the store changes only by a save that appends one run
\* of the logged-in user, a deleteRun that removes exactly one run (one of
\* that user's, by id), or a clearMyRuns that removes exactly that user's
\* runs; with nobody logged in nothing is stored; and the runs table, the
\* chart and the summary show runs of the logged-in user only.
C13_RunsOwnedByUser ==
    [][ /\ \A u \in Users \ {currentUser} : RunsOf(runs', u) = RunsOf(runs, u)
        /\ currentUser = NoUser => StoreKept
        /\ StoreKept \/ StoreSaved \/ StoreDeletedOne \/ StoreCleared
        /\ ShowsOwnRunsOnly ]_vars

\* ann saved run 1; bob saved runs 2 and 3 and deleted run 2: he sees his one
\* remaining run, and ann's is untouched.
C13_Witness ==
    /\ currentUser = "bob" /\ nextId = 3
    /\ Len(runs) = 2 /\ runs[1].user = "ann" /\ runs[1].id = 1
    /\ runs[2].user = "bob" /\ runs[2].id = 3
    /\ Len(runsTable) = 1 /\ runsTable[1] = RunsOf(runs, "bob")[1].id
    /\ Len(practiceSummary) = 1 /\ practiceSummary[1].runsCount = 1

---------------------------------------------------------------------------
(* Claims about the empty summary, checked under SpecExport.               *)

\* C14: a summary pass that finds no run of the user, or none within the
\* filter, leaves the stored summary empty, whatever it held before, and the
\* message "No runs match this filter."; and a summary export made while the
\* stored summary is empty leaves the message "Nothing to export yet".
C14_EmptySummarySignal ==
    [][ /\ (summaryFresh' /\ Surviving' = {}) => practiceSummary' = <<>>
        /\ (summaryFresh' /\ Surviving' = {} /\ ~exportPracticeSummaryCSV) =>
               practiceMsg' = Msg("noMatch", 0)
        /\ (exportPracticeSummaryCSV /\ practiceSummary = <<>>) =>
               /\ practiceMsg' = Msg("nothingToExport", 0)
               /\ practiceSummary' = <<>> ]_vars

\* A run at 10 m is stored and the filter (target 5, default tolerance) has
\* removed it: the summary is empty and the export has said so.
C14_Witness ==
    /\ summaryFresh /\ Mine # {} /\ Surviving = {}
    /\ filterTrackM = JStr(5000) /\ filterToleranceM = JEmpty
    /\ practiceSummary = <<>>
    /\ practiceMsg = Msg("nothingToExport", 0)

---------------------------------------------------------------------------
(* Claims about signing up, checked under SpecSignup.                      *)

\* C15: every account whose createUser completed without error is in the user
\* table with the salt and the hash it was created with, however the calls
\* interleave; and a createUser for a username that exists fails on a table
\* that holds that username.
C15_CompletedAccountsKept ==
    \A p \in Procs :
        /\ calls[p].pc = "done" =>
               /\ calls[p].username \in DOMAIN users
               /\ users[calls[p].username] = userEntry(calls[p].password, calls[p].salt)
        /\ calls[p].pc = "failed" => calls[p].username \in DOMAIN calls[p].users

=============================================================================
